---- MODULE Spec2Model ----
(***************************************************************************)
(* NavigationTracker (src/src/NavigationTracker.ts): screen inference,     *)
(* throttling and the deduplicated navigation journal.                     *)
(*                                                                         *)
(* Text that the code inspects character by character (page sources, URLs, *)
(* screen names, fingerprints) is a sequence of UTF-16 code units.         *)
(* Element ids are only compared for equality and are TLA+ strings.        *)
(***************************************************************************)
EXTENDS Integers, Sequences, FiniteSets, TLC

(***************************************************************************)
(* Bounds of the model.                                                    *)
(***************************************************************************)
\* number of public calls made in one run
MaxCalls == 3
\* wall clock (ms since local midnight) at construction: 13:07:59.550
StartTime == 47279550
\* the clock advances in steps of TickStep ms, at most MaxTicks times
TickStep == 150
MaxTicks == 3

(***************************************************************************)
(* String literals of the source.                                          *)
(***************************************************************************)
\* 'App Start'  (NavigationTracker.ts:89)
S_AppStart == <<65, 112, 112, 32, 83, 116, 97, 114, 116>>
\* 'Home Screen'  (NavigationTracker.ts:129)
S_HomeScreen == <<72, 111, 109, 101, 32, 83, 99, 114, 101, 101, 110>>
\* 'Color Screen'  (NavigationTracker.ts:124)
S_ColorScreen == <<67, 111, 108, 111, 114, 32, 83, 99, 114, 101, 101, 110>>
\* 'Text Screen'  (NavigationTracker.ts:125)
S_TextScreen == <<84, 101, 120, 116, 32, 83, 99, 114, 101, 101, 110>>
\* 'Toast Screen'  (NavigationTracker.ts:126)
S_ToastScreen == <<84, 111, 97, 115, 116, 32, 83, 99, 114, 101, 101, 110>>
\* 'Notification Screen'  (NavigationTracker.ts:127)
S_NotificationScreen == <<78, 111, 116, 105, 102, 105, 99, 97, 116, 105, 111, 110, 32, 83, 99, 114, 101, 101, 110>>
\* 'Geolocation Screen'  (NavigationTracker.ts:128)
S_GeolocationScreen == <<71, 101, 111, 108, 111, 99, 97, 116, 105, 111, 110, 32, 83, 99, 114, 101, 101, 110>>
\* 'Speed Test Screen'  (NavigationTracker.ts:130)
S_SpeedTestScreen == <<83, 112, 101, 101, 100, 32, 84, 101, 115, 116, 32, 83, 99, 114, 101, 101, 110>>
\* 'WebView Screen'  (NavigationTracker.ts:131)
S_WebViewScreen == <<87, 101, 98, 86, 105, 101, 119, 32, 83, 99, 114, 101, 101, 110>>
\* 'Browser Content Screen'  (NavigationTracker.ts:132)
S_BrowserContentScreen == <<66, 114, 111, 119, 115, 101, 114, 32, 67, 111, 110, 116, 101, 110, 116, 32, 83, 99, 114, 101, 101, 110>>
\* 'LambdaTest Website'  (NavigationTracker.ts:329)
S_LambdaTestWebsite == <<76, 97, 109, 98, 100, 97, 84, 101, 115, 116, 32, 87, 101, 98, 115, 105, 116, 101>>
\* 'Unknown Screen'  (NavigationTracker.ts:272)
S_UnknownScreen == <<85, 110, 107, 110, 111, 119, 110, 32, 83, 99, 114, 101, 101, 110>>
\* 'WebView: '  (NavigationTracker.ts:258)
S_WebViewPrefix == <<87, 101, 98, 86, 105, 101, 119, 58, 32>>
\* 'Screen at '  (NavigationTracker.ts:267)
S_ScreenAt == <<83, 99, 114, 101, 101, 110, 32, 97, 116, 32>>
\* 'id="color"'  (NavigationTracker.ts:282)
M_color == <<105, 100, 61, 34, 99, 111, 108, 111, 114, 34>>
\* 'id="Text"'  (NavigationTracker.ts:283)
M_Text == <<105, 100, 61, 34, 84, 101, 120, 116, 34>>
\* 'id="toast"'  (NavigationTracker.ts:284)
M_toast == <<105, 100, 61, 34, 116, 111, 97, 115, 116, 34>>
\* 'id="url"'  (NavigationTracker.ts:288)
M_url == <<105, 100, 61, 34, 117, 114, 108, 34>>
\* 'id="find"'  (NavigationTracker.ts:288)
M_find == <<105, 100, 61, 34, 102, 105, 110, 100, 34>>
\* 'id="Back"'  (NavigationTracker.ts:292)
M_Back == <<105, 100, 61, 34, 66, 97, 99, 107, 34>>
\* 'id="colorSelection"'  (NavigationTracker.ts:294)
M_colorSelection == <<105, 100, 61, 34, 99, 111, 108, 111, 114, 83, 101, 108, 101, 99, 116, 105, 111, 110, 34>>
\* 'id="textInput"'  (NavigationTracker.ts:297)
M_textInput == <<105, 100, 61, 34, 116, 101, 120, 116, 73, 110, 112, 117, 116, 34>>
\* 'id="showToast"'  (NavigationTracker.ts:300)
M_showToast == <<105, 100, 61, 34, 115, 104, 111, 119, 84, 111, 97, 115, 116, 34>>
\* 'id="showNotification"'  (NavigationTracker.ts:303)
M_showNotification == <<105, 100, 61, 34, 115, 104, 111, 119, 78, 111, 116, 105, 102, 105, 99, 97, 116, 105, 111, 110, 34>>
\* 'id="gpsLocation"'  (NavigationTracker.ts:306)
M_gpsLocation == <<105, 100, 61, 34, 103, 112, 115, 76, 111, 99, 97, 116, 105, 111, 110, 34>>
\* 'id="startTest"'  (NavigationTracker.ts:309)
M_startTest == <<105, 100, 61, 34, 115, 116, 97, 114, 116, 84, 101, 115, 116, 34>>
\* '>Color<'  (NavigationTracker.ts:315)
M_ColorTag == <<62, 67, 111, 108, 111, 114, 60>>
\* '"Color"'  (NavigationTracker.ts:315)
M_ColorQuoted == <<34, 67, 111, 108, 111, 114, 34>>
\* '>Geolocation<'  (NavigationTracker.ts:319)
M_GeolocationTag == <<62, 71, 101, 111, 108, 111, 99, 97, 116, 105, 111, 110, 60>>
\* '"Geolocation"'  (NavigationTracker.ts:319)
M_GeolocationQuoted == <<34, 71, 101, 111, 108, 111, 99, 97, 116, 105, 111, 110, 34>>
\* '>Speed Test<'  (NavigationTracker.ts:323)
M_SpeedTestTag == <<62, 83, 112, 101, 101, 100, 32, 84, 101, 115, 116, 60>>
\* '"Speed Test"'  (NavigationTracker.ts:323)
M_SpeedTestQuoted == <<34, 83, 112, 101, 101, 100, 32, 84, 101, 115, 116, 34>>
\* 'www.lambdatest.com'  (NavigationTracker.ts:328)
M_lambdatest == <<119, 119, 119, 46, 108, 97, 109, 98, 100, 97, 116, 101, 115, 116, 46, 99, 111, 109>>
\* 'WebView'  (NavigationTracker.ts:255)
M_WebViewUpper == <<87, 101, 98, 86, 105, 101, 119>>
\* 'webview'  (NavigationTracker.ts:255)
M_webviewLower == <<119, 101, 98, 118, 105, 101, 119>>

(***************************************************************************)
(* Text helpers: String.prototype.includes, split('/').pop(), toString.    *)
(***************************************************************************)
\* pageSource.includes(pat)
includes(str, pat) ==
  \E i \in 0..(Len(str) - Len(pat)) : SubSeq(str, i + 1, i + Len(pat)) = pat

\* code unit of '/'
Slash == 47

\* the position of the last '/' among the first n characters, 0 if none
RECURSIVE lastSlash(_, _)
lastSlash(url, n) ==
  IF n = 0 THEN 0
  ELSE IF url[n] = Slash THEN n ELSE lastSlash(url, n - 1)

\* url.split('/').pop(): the text after the last '/', the whole text when
\* there is none
LastSegment(url) == SubSeq(url, lastSlash(url, Len(url)) + 1, Len(url))

\* Number.prototype.toString() of a non-negative integer
RECURSIVE NatToString(_)
NatToString(n) ==
  IF n < 10 THEN <<48 + n>>
  ELSE NatToString(n \div 10) \o <<48 + (n % 10)>>

\* Number.prototype.toString() of an integer ('-' is code unit 45); the
\* magnitude of a negative n is taken as (-(n + 1)) + 1, digit by digit, so
\* that -2^31 needs no 33-bit intermediate
IntToString(n) ==
  IF n >= 0 THEN NatToString(n)
  ELSE LET m == 0 - (n + 1) IN
       IF m < 9 THEN <<45, 48 + m + 1>>
       ELSE <<45>> \o NatToString((m \div 10) + (IF m % 10 = 9 THEN 1 ELSE 0))
                  \o <<48 + (((m % 10) + 1) % 10)>>

\* variant: (hash << 5) + hash, that is 33 * hash + char
wrap32_Plus(hi, lo, char) ==
  LET lo2 == 33 * lo + char
      hi2 == (33 * hi + (lo2 \div 65536)) % 65536
  IN  IF hi2 >= 32768 THEN (hi2 - 65536) * 65536 + (lo2 % 65536)
      ELSE hi2 * 65536 + (lo2 % 65536)

(***************************************************************************)
(* hashString: hash = ((hash << 5) - hash) + char; hash = hash & hash.     *)
(* The value is kept as a signed 32-bit integer; 31*hash + char is         *)
(* computed on 16-bit halves so that no intermediate exceeds 32 bits.      *)
(***************************************************************************)
\* 31 * (hi * 2^16 + lo) + char, wrapped to a signed 32-bit integer
wrap32(hi, lo, char) ==
  LET lo2 == 31 * lo + char
      hi2 == (31 * hi + (lo2 \div 65536)) % 65536
  IN  IF hi2 >= 32768 THEN (hi2 - 65536) * 65536 + (lo2 % 65536)
      ELSE hi2 * 65536 + (lo2 % 65536)

hashStep(hash, char) ==
  IF hash >= 0
  THEN wrap32(hash \div 65536, hash % 65536, char)
  ELSE wrap32((hash \div 65536) + 65536, hash % 65536, char)

\* the value of hash after the first n characters of str (the value of the
\* previous iteration is bound once, as the loop variable is)
RECURSIVE hashFold(_, _)
hashFold(str, n) ==
  IF n = 0 THEN 0
  ELSE CHOOSE h \in {hashStep(prev, str[n]) : prev \in {hashFold(str, n - 1)}} : TRUE

hashString(str) == IntToString(hashFold(str, Len(str)))

\* variant: the pair for Back is not set
initializeActionScreenMap_NoBack ==
  [id \in {"color", "Text", "toast", "notification", "geoLocation",
           "buttonPage", "speedTest", "webview", "find"} |->
     CASE id = "color"        -> S_ColorScreen
       [] id = "Text"         -> S_TextScreen
       [] id = "toast"        -> S_ToastScreen
       [] id = "notification" -> S_NotificationScreen
       [] id = "geoLocation"  -> S_GeolocationScreen
       [] id = "buttonPage"   -> S_HomeScreen
       [] id = "speedTest"    -> S_SpeedTestScreen
       [] id = "webview"      -> S_WebViewScreen
       [] id = "find"         -> S_BrowserContentScreen]

(***************************************************************************)
(* initializeActionScreenMap: the pairs it sets on this.actionScreenMap.    *)
(***************************************************************************)
initializeActionScreenMap ==
  [id \in {"color", "Text", "toast", "notification", "geoLocation",
           "buttonPage", "speedTest", "webview", "find", "Back"} |->
     CASE id = "color"        -> S_ColorScreen
       [] id = "Text"         -> S_TextScreen
       [] id = "toast"        -> S_ToastScreen
       [] id = "notification" -> S_NotificationScreen
       [] id = "geoLocation"  -> S_GeolocationScreen
       [] id = "buttonPage"   -> S_HomeScreen
       [] id = "speedTest"    -> S_SpeedTestScreen
       [] id = "webview"      -> S_WebViewScreen
       [] id = "find"         -> S_BrowserContentScreen
       [] id = "Back"         -> S_HomeScreen]

\* variant: the WebView rule is tested ahead of the home rule
identifyScreenFromPageSource_UrlFirst(pageSource) ==
  IF includes(pageSource, M_url) /\ includes(pageSource, M_find)
  THEN S_WebViewScreen
  ELSE IF includes(pageSource, M_color) /\ includes(pageSource, M_Text)
            /\ includes(pageSource, M_toast)
  THEN S_HomeScreen
  ELSE IF includes(pageSource, M_Back) /\ includes(pageSource, M_colorSelection)
  THEN S_ColorScreen
  ELSE IF includes(pageSource, M_Back) /\ includes(pageSource, M_textInput)
  THEN S_TextScreen
  ELSE IF includes(pageSource, M_Back) /\ includes(pageSource, M_showToast)
  THEN S_ToastScreen
  ELSE IF includes(pageSource, M_Back) /\ includes(pageSource, M_showNotification)
  THEN S_NotificationScreen
  ELSE IF includes(pageSource, M_Back) /\ includes(pageSource, M_gpsLocation)
  THEN S_GeolocationScreen
  ELSE IF includes(pageSource, M_Back) /\ includes(pageSource, M_startTest)
  THEN S_SpeedTestScreen
  ELSE IF includes(pageSource, M_ColorTag) \/ includes(pageSource, M_ColorQuoted)
  THEN S_ColorScreen
  ELSE IF includes(pageSource, M_GeolocationTag)
            \/ includes(pageSource, M_GeolocationQuoted)
  THEN S_GeolocationScreen
  ELSE IF includes(pageSource, M_SpeedTestTag)
            \/ includes(pageSource, M_SpeedTestQuoted)
  THEN S_SpeedTestScreen
  ELSE IF includes(pageSource, M_lambdatest)
  THEN S_LambdaTestWebsite
  ELSE <<>>

\* variant: the title-text rules are tested ahead of the back/detail rules
identifyScreenFromPageSource_TitleFirst(pageSource) ==
  IF includes(pageSource, M_color) /\ includes(pageSource, M_Text)
       /\ includes(pageSource, M_toast)
  THEN S_HomeScreen
  ELSE IF includes(pageSource, M_url) /\ includes(pageSource, M_find)
  THEN S_WebViewScreen
  ELSE IF includes(pageSource, M_ColorTag) \/ includes(pageSource, M_ColorQuoted)
  THEN S_ColorScreen
  ELSE IF includes(pageSource, M_GeolocationTag)
            \/ includes(pageSource, M_GeolocationQuoted)
  THEN S_GeolocationScreen
  ELSE IF includes(pageSource, M_SpeedTestTag)
            \/ includes(pageSource, M_SpeedTestQuoted)
  THEN S_SpeedTestScreen
  ELSE IF includes(pageSource, M_Back) /\ includes(pageSource, M_colorSelection)
  THEN S_ColorScreen
  ELSE IF includes(pageSource, M_Back) /\ includes(pageSource, M_textInput)
  THEN S_TextScreen
  ELSE IF includes(pageSource, M_Back) /\ includes(pageSource, M_showToast)
  THEN S_ToastScreen
  ELSE IF includes(pageSource, M_Back) /\ includes(pageSource, M_showNotification)
  THEN S_NotificationScreen
  ELSE IF includes(pageSource, M_Back) /\ includes(pageSource, M_gpsLocation)
  THEN S_GeolocationScreen
  ELSE IF includes(pageSource, M_Back) /\ includes(pageSource, M_startTest)
  THEN S_SpeedTestScreen
  ELSE IF includes(pageSource, M_lambdatest)
  THEN S_LambdaTestWebsite
  ELSE <<>>

(***************************************************************************)
(* identifyScreenFromPageSource: first matching rule wins; <<>> is null.   *)
(***************************************************************************)
identifyScreenFromPageSource(pageSource) ==
  IF includes(pageSource, M_color) /\ includes(pageSource, M_Text)
       /\ includes(pageSource, M_toast)
  THEN S_HomeScreen
  ELSE IF includes(pageSource, M_url) /\ includes(pageSource, M_find)
  THEN S_WebViewScreen
  ELSE IF includes(pageSource, M_Back) /\ includes(pageSource, M_colorSelection)
  THEN S_ColorScreen
  ELSE IF includes(pageSource, M_Back) /\ includes(pageSource, M_textInput)
  THEN S_TextScreen
  ELSE IF includes(pageSource, M_Back) /\ includes(pageSource, M_showToast)
  THEN S_ToastScreen
  ELSE IF includes(pageSource, M_Back) /\ includes(pageSource, M_showNotification)
  THEN S_NotificationScreen
  ELSE IF includes(pageSource, M_Back) /\ includes(pageSource, M_gpsLocation)
  THEN S_GeolocationScreen
  ELSE IF includes(pageSource, M_Back) /\ includes(pageSource, M_startTest)
  THEN S_SpeedTestScreen
  ELSE IF includes(pageSource, M_ColorTag) \/ includes(pageSource, M_ColorQuoted)
  THEN S_ColorScreen
  ELSE IF includes(pageSource, M_GeolocationTag)
            \/ includes(pageSource, M_GeolocationQuoted)
  THEN S_GeolocationScreen
  ELSE IF includes(pageSource, M_SpeedTestTag)
            \/ includes(pageSource, M_SpeedTestQuoted)
  THEN S_SpeedTestScreen
  ELSE IF includes(pageSource, M_lambdatest)
  THEN S_LambdaTestWebsite
  ELSE <<>>

(***************************************************************************)
(* The synthetic name `Screen at ${getHours()}:${getMinutes()}:${getSeconds()}` *)
(* of the wall clock now (ms since local midnight); ':' is code unit 58.   *)
(***************************************************************************)
getHours(now)   == (now \div 3600000) % 24
getMinutes(now) == (now \div 60000) % 60
getSeconds(now) == (now \div 1000) % 60

\* variant: the name also carries the milliseconds
screenId_WithMillis(now) ==
  S_ScreenAt \o NatToString(getHours(now)) \o <<58>>
             \o NatToString(getMinutes(now)) \o <<58>>
             \o NatToString(getSeconds(now)) \o <<46>>
             \o NatToString(now % 1000)

\* variant: getMilliseconds() in place of getSeconds()
screenId_Millis(now) ==
  S_ScreenAt \o NatToString(getHours(now)) \o <<58>>
             \o NatToString(getMinutes(now)) \o <<58>>
             \o NatToString(now % 1000)

screenId(now) ==
  S_ScreenAt \o NatToString(getHours(now)) \o <<58>>
             \o NatToString(getMinutes(now)) \o <<58>>
             \o NatToString(getSeconds(now))

\* variant: the label carries the whole URL
webViewLabel_WholeUrl(url) == S_WebViewPrefix \o url

\* `WebView: ${url.split('/').pop() || url}`
webViewLabel(url) ==
  S_WebViewPrefix \o (IF LastSegment(url) # <<>> THEN LastSegment(url) ELSE url)

\* pageSource && (pageSource.includes('WebView') || pageSource.includes('webview'))
isWebViewSource(pageSource) ==
  pageSource # <<>>
    /\ (includes(pageSource, M_WebViewUpper) \/ includes(pageSource, M_webviewLower))

(***************************************************************************)
(* The throttle test of trackNavigation.                                   *)
(***************************************************************************)
minCheckInterval == 300

\* variant: the operands of the subtraction are swapped
throttled_Swapped(now, last) == last - now < 0 - minCheckInterval

\* variant: the throttle test is not strict
throttled_Inclusive(now, last) == now - last <= minCheckInterval

throttled(now, last) == now - last < minCheckInterval

\* the settle delay of afterClick: setTimeout(resolve, 300)
settleDelay == 300

(***************************************************************************)
(* What the callers and the driver can supply.                             *)
(***************************************************************************)
\* element ids passed to recordUserAction / beforeClick: two keys of the
\* map and a key in the wrong case
ElementIds == {"color", "Back", "back"}

\* page sources returned by driver.getPageSource()
P_Home    == M_color \o M_Text \o M_toast \o M_Back
P_Color   == M_Back \o M_colorSelection
P_Unknown == <<60, 120, 47, 62>>
P_WebView == <<60>> \o M_WebViewUpper \o <<47, 62>>
P_webview == <<60>> \o M_webviewLower \o <<47, 62>>

PageSources == {P_Home, P_Color, P_Unknown, P_WebView}

\* driver.getPageSource(): throws, or resolves to '' or to a page source
PageSourceResponses ==
  {[kind |-> "throw", val |-> <<>>]}
    \cup {[kind |-> "value", val |-> s] : s \in PageSources \cup {<<>>}}

\* URLs returned by driver.getCurrentUrl(): 'h/p' and 'h/'
U_Page == <<104, 47, 112>>
U_Dir  == <<104, 47>>

\* driver.getCurrentUrl(): throws, resolves to a string ('' included), or
\* resolves to a truthy value that is not a string
CurrentUrlResponses ==
  {[kind |-> "throw", val |-> <<>>], [kind |-> "other", val |-> <<>>]}
    \cup {[kind |-> "string", val |-> u] : u \in {U_Page, U_Dir, <<>>}}

\* fs.writeFileSync in saveResults: the first write succeeds, or it throws
\* and the backup write succeeds, or both throw
WriteOutcomes == {"ok", "backup", "fail"}

(***************************************************************************)
(* State.                                                                  *)
(***************************************************************************)
VARIABLES
  currentScreen,       \* this.currentScreen
  navigations,         \* this.navigations
  lastCheckTime,       \* this.lastCheckTime
  lastPageSourceHash,  \* this.lastPageSourceHash
  lastAction,          \* this.lastAction
  clock,               \* Date.now() / new Date(), ms since local midnight
  calls,               \* the public calls made so far, each with its position
  files,               \* what saveResults last wrote to test-results
  actionScreenMap,     \* this.actionScreenMap
  input,               \* the argument a function is applied to on its own
  output               \* the function applied and the value it returned

vars == <<currentScreen, navigations, lastCheckTime, lastPageSourceHash,
          lastAction, clock, calls, files, actionScreenMap, input, output>>

tracker == <<currentScreen, navigations, lastCheckTime, lastPageSourceHash,
             lastAction>>

\* what no method of the tracker assigns
fixed == <<actionScreenMap, input, output>>

\* actionScreenMap.has(id)
mapHas(id) == id \in DOMAIN actionScreenMap

\* actionScreenMap.get(id) || ''
mapGet(id) == IF mapHas(id) THEN actionScreenMap[id] ELSE <<>>

\* a Navigation record.  Its timestamp (new Date().toISOString()) is written
\* once and read by nothing in the tracker; the record carries the other
\* three fields.
Navigation(previousScreen, screen, navigationType) ==
  [previous_screen |-> previousScreen, current_screen |-> screen,
   navigation_type |-> navigationType]

\* a call as it starts: pc is the await it is suspended at, path the branch
\* of getCurrentScreenName it returned through, ret the value returned,
\* appended the index of the journal entry its check pushed (0: none)
Call(op, arg, pc) ==
  [op |-> op, arg |-> arg, pc |-> pc, path |-> "none", ret |-> <<>>,
   pageSource |-> <<>>, wake |-> 0, srcKind |-> "none",
   urlKind |-> "none", url |-> <<>>, classified |-> FALSE, raised |-> FALSE,
   appended |-> 0]

\* the caller awaits every call before making the next one
Idle == \A i \in 1..Len(calls) : calls[i].pc = "done"

MaxTime == StartTime + MaxTicks * TickStep

\* variant: unshift instead of push
addNavigation_Unshift(previousScreen, screen, navigationType) ==
  IF Len(navigations) > 0
       /\ navigations[Len(navigations)].current_screen = screen
  THEN UNCHANGED <<navigations, currentScreen>>
  ELSE /\ navigations' = <<Navigation(previousScreen, screen, navigationType)>>
                           \o navigations
       /\ currentScreen' = screen

\* variant: the last entry is overwritten instead of a push
addNavigation_Overwrite(previousScreen, screen, navigationType) ==
  IF Len(navigations) > 0
       /\ navigations[Len(navigations)].current_screen = screen
  THEN UNCHANGED <<navigations, currentScreen>>
  ELSE /\ navigations' =
            [navigations EXCEPT ![Len(navigations)] =
               Navigation(previousScreen, screen, navigationType)]
       /\ currentScreen' = screen

\* variant: a screen found anywhere in the journal is not recorded again
addNavigation_History(previousScreen, screen, navigationType) ==
  IF \E k \in 1..Len(navigations) : navigations[k].current_screen = screen
  THEN UNCHANGED <<navigations, currentScreen>>
  ELSE /\ navigations' = Append(navigations,
             Navigation(previousScreen, screen, navigationType))
       /\ currentScreen' = screen

\* variant: this.currentScreen is set to the screen left, not the one entered
addNavigation_PrevScreen(previousScreen, screen, navigationType) ==
  IF Len(navigations) > 0
       /\ navigations[Len(navigations)].current_screen = screen
  THEN UNCHANGED <<navigations, currentScreen>>
  ELSE /\ navigations' = Append(navigations,
             Navigation(previousScreen, screen, navigationType))
       /\ currentScreen' = previousScreen

\* variant: this.currentScreen is not updated after the push
addNavigation_KeepScreen(previousScreen, screen, navigationType) ==
  IF Len(navigations) > 0
       /\ navigations[Len(navigations)].current_screen = screen
  THEN UNCHANGED <<navigations, currentScreen>>
  ELSE /\ navigations' = Append(navigations,
             Navigation(previousScreen, screen, navigationType))
       /\ UNCHANGED currentScreen

(***************************************************************************)
(* addNavigation                                                           *)
(***************************************************************************)
addNavigation(previousScreen, screen, navigationType) ==
  IF Len(navigations) > 0
       /\ navigations[Len(navigations)].current_screen = screen
  THEN UNCHANGED <<navigations, currentScreen>>
  ELSE /\ navigations' = Append(navigations,
             Navigation(previousScreen, screen, navigationType))
       /\ currentScreen' = screen

(***************************************************************************)
(* The constructor: resetResultsDirectory runs addNavigation('',           *)
(* 'App Start', 'test_start') on the empty journal, then                   *)
(* initializeActionScreenMap sets currentScreen = 'Home Screen'.           *)
(***************************************************************************)
resetResultsDirectory == <<Navigation(<<>>, S_AppStart, "test_start")>>

\* variant: currentScreen is left as addNavigation set it
initialScreen_AppStart == S_AppStart

initialScreen == S_HomeScreen

\* no function has been applied on its own
NoOutput == [fn |-> "none", val |-> <<>>]

\* the tracker as the constructor leaves it
Constructed ==
  /\ clock = StartTime
  /\ navigations = resetResultsDirectory
  /\ currentScreen = initialScreen
  /\ lastCheckTime = 0
  /\ lastPageSourceHash = <<>>
  /\ lastAction = ""
  /\ calls = <<>>
  /\ files = [file |-> "none"]
  /\ actionScreenMap = initializeActionScreenMap

Init ==
  /\ Constructed
  /\ input = <<>>
  /\ output = NoOutput

(***************************************************************************)
(* recordUserAction(elementId)                                             *)
(***************************************************************************)
recordUserAction(elementId) ==
  /\ lastAction' = elementId
  /\ IF mapHas(elementId) /\ mapGet(elementId) # <<>>
          /\ mapGet(elementId) # currentScreen
     THEN addNavigation(currentScreen, mapGet(elementId), "user_interaction")
     ELSE UNCHANGED <<navigations, currentScreen>>
  /\ calls' = Append(calls, Call("recordUserAction", elementId, "done"))
  /\ UNCHANGED <<lastCheckTime, lastPageSourceHash, clock, files, fixed>>

\* variant: beforeClick stores the element id whether or not it is a key
beforeClickAction_Always(elementId, action) == elementId

\* variant: beforeClick tests the id for emptiness only, not for a key
beforeClickAction_NoHas(elementId, action) ==
  IF elementId # "" THEN elementId ELSE action

\* variant: beforeClick does not record the element
beforeClickAction_Ignored(elementId, action) == action

(***************************************************************************)
(* beforeClick(elementId)                                                  *)
(***************************************************************************)
\* the value of lastAction after beforeClick(elementId)
beforeClickAction(elementId, action) ==
  IF elementId # "" /\ mapHas(elementId) THEN elementId ELSE action

beforeClick(elementId) ==
  /\ lastAction' = beforeClickAction(elementId, lastAction)
  /\ calls' = Append(calls, Call("beforeClick", elementId, "done"))
  /\ UNCHANGED <<currentScreen, navigations, lastCheckTime,
                 lastPageSourceHash, clock, files, fixed>>

\* variant: the page source is consulted ahead of the hint
hintUsable_Never(action) == FALSE

(***************************************************************************)
(* trackNavigation / getCurrentScreenName.  A call is suspended at the     *)
(* awaits of driver.getPageSource() ("source"), driver.getCurrentUrl()     *)
(* ("url") and at `await this.getCurrentScreenName()` ("resume").          *)
(***************************************************************************)
\* the hint test of getCurrentScreenName
hintUsable(action) ==
  action # "" /\ mapHas(action) /\ mapGet(action) # <<>>

\* variant: the hint is not reset after use
consumedAction_Kept(action) == action

\* lastAction after the hint was used
consumedAction(action) == ""

\* variant: getPageSource is awaited without its own try/catch
catchPageSource_Rethrow(resp) == resp

\* try { pageSource = await this.driver.getPageSource() } catch (e) { }
catchPageSource(resp) ==
  IF resp.kind = "throw" THEN [kind |-> "value", val |-> <<>>] ELSE resp

\* try { ... await this.driver.getCurrentUrl() ... } catch (e) { }
catchCurrentUrl(resp) ==
  IF resp.kind = "throw" THEN [kind |-> "string", val |-> <<>>] ELSE resp

\* the catch of getCurrentScreenName: return this.currentScreen || 'Unknown Screen'
catchGetCurrentScreenName(resp, screen) ==
  IF resp.kind = "throw"
  THEN [kind |-> "value", val |-> IF screen # <<>> THEN screen ELSE S_UnknownScreen]
  ELSE resp

\* the catch of trackNavigation: the error is logged
catchTrackNavigation(resp) ==
  IF resp.kind = "throw" THEN [kind |-> "value", val |-> <<>>] ELSE resp

\* getCurrentScreenName returns screen through the branch path
returns(i, path, screen, extra) ==
  calls' = [calls EXCEPT ![i] =
              [extra EXCEPT !.pc = "resume", !.path = path, !.ret = screen]]

\* an exception resp raised inside the try of getCurrentScreenName
throws(i, resp, extra) ==
  LET inner == catchGetCurrentScreenName(resp, currentScreen)
      outer == catchTrackNavigation(inner)
  IN  IF inner.kind = "value"
      THEN returns(i, "catch", inner.val, extra)
      ELSE calls' = [calls EXCEPT ![i] =
                       [extra EXCEPT !.pc = "done", !.path = "error",
                                     !.raised = (outer.kind = "throw")]]

\* variant: lastCheckTime is stamped ahead of the throttle test
trackNavigationBegin_StampFirst(cs, i) ==
  LET c == [cs[i] EXCEPT !.wake = 0] IN
  IF throttled(clock, lastCheckTime)
  THEN /\ calls' = [cs EXCEPT ![i] = [c EXCEPT !.pc = "done", !.path = "throttled"]]
       /\ lastCheckTime' = clock
       /\ UNCHANGED lastAction
  ELSE /\ lastCheckTime' = clock
       /\ IF hintUsable(lastAction)
          THEN /\ lastAction' = consumedAction(lastAction)
               /\ calls' = [cs EXCEPT ![i] =
                              [c EXCEPT !.pc = "resume", !.path = "hint",
                                        !.ret = mapGet(lastAction)]]
          ELSE /\ UNCHANGED lastAction
               /\ calls' = [cs EXCEPT ![i] = [c EXCEPT !.pc = "source"]]

\* variant: the hint is tested here but not cleared in the same step
trackNavigationBegin_TestOnly(cs, i) ==
  LET c == [cs[i] EXCEPT !.wake = 0] IN
  IF throttled(clock, lastCheckTime)
  THEN /\ calls' = [cs EXCEPT ![i] = [c EXCEPT !.pc = "done", !.path = "throttled"]]
       /\ UNCHANGED <<lastCheckTime, lastAction>>
  ELSE /\ lastCheckTime' = clock
       /\ IF hintUsable(lastAction)
          THEN /\ UNCHANGED lastAction
               /\ calls' = [cs EXCEPT ![i] =
                              [c EXCEPT !.pc = "resume", !.path = "hint",
                                        !.ret = mapGet(lastAction)]]
          ELSE /\ UNCHANGED lastAction
               /\ calls' = [cs EXCEPT ![i] = [c EXCEPT !.pc = "source"]]

\* trackNavigation up to its first await, for the call at index i of cs
trackNavigationBegin(cs, i) ==
  LET c == [cs[i] EXCEPT !.wake = 0] IN
  IF throttled(clock, lastCheckTime)
  THEN /\ calls' = [cs EXCEPT ![i] = [c EXCEPT !.pc = "done", !.path = "throttled"]]
       /\ UNCHANGED <<lastCheckTime, lastAction>>
  ELSE /\ lastCheckTime' = clock
       /\ IF hintUsable(lastAction)
          THEN /\ lastAction' = consumedAction(lastAction)
               /\ calls' = [cs EXCEPT ![i] =
                              [c EXCEPT !.pc = "resume", !.path = "hint",
                                        !.ret = mapGet(lastAction)]]
          ELSE /\ UNCHANGED lastAction
               /\ calls' = [cs EXCEPT ![i] = [c EXCEPT !.pc = "source"]]

trackNavigation ==
  /\ trackNavigationBegin(Append(calls, Call("trackNavigation", "", "start")),
                          Len(calls) + 1)
  /\ UNCHANGED <<currentScreen, navigations, lastPageSourceHash, clock, files, fixed>>

\* variant: the string is compared with the number it was made from (===)
sameFingerprint_Never(sourceHash, lastHash) == FALSE

\* if (sourceHash === this.lastPageSourceHash): the page source is unchanged
sameFingerprint(sourceHash, lastHash) == sourceHash = lastHash

\* driver.getPageSource() settles with resp for call i
pageSourceReturns(i, resp) ==
  /\ calls[i].pc = "source"
  /\ LET got        == catchPageSource(resp)
         pageSource == got.val
         sourceHash == hashString(pageSource)
         detected   == identifyScreenFromPageSource(pageSource)
         c == [calls[i] EXCEPT
                 !.pageSource = pageSource,
                 !.srcKind = IF resp.kind = "throw" THEN "throw"
                             ELSE IF resp.val = <<>> THEN "empty" ELSE "text"]
     IN  IF got.kind = "throw"
         THEN /\ throws(i, got, c)
              /\ UNCHANGED lastPageSourceHash
         ELSE IF pageSource # <<>> /\ sameFingerprint(sourceHash, lastPageSourceHash)
         THEN /\ returns(i, "shortcut", currentScreen, c)
              /\ UNCHANGED lastPageSourceHash
         ELSE IF pageSource # <<>> /\ detected # <<>>
         THEN /\ lastPageSourceHash' = sourceHash
              /\ returns(i, "classifier", detected, [c EXCEPT !.classified = TRUE])
         ELSE /\ lastPageSourceHash' =
                   (IF pageSource # <<>> THEN sourceHash ELSE lastPageSourceHash)
              /\ IF isWebViewSource(pageSource)
                 THEN calls' = [calls EXCEPT ![i] =
                                  [c EXCEPT !.pc = "url", !.classified = TRUE]]
                 ELSE returns(i, "fallback", screenId(clock),
                              [c EXCEPT !.classified = (pageSource # <<>>)])
  /\ UNCHANGED <<currentScreen, navigations, lastCheckTime, lastAction,
                 clock, files, fixed>>

\* driver.getCurrentUrl() settles with resp for call i
currentUrlReturns(i, resp) ==
  /\ calls[i].pc = "url"
  /\ LET got == catchCurrentUrl(resp)
         c   == [calls[i] EXCEPT !.urlKind = resp.kind, !.url = resp.val]
     IN  IF got.kind = "throw"
         THEN throws(i, got, c)
         ELSE IF got.kind = "string" /\ got.val # <<>>
         THEN returns(i, "webview", webViewLabel(got.val), c)
         ELSE returns(i, "fallback", screenId(clock), c)
  /\ UNCHANGED <<tracker, clock, files, fixed>>

\* variant: trackNavigation passes the type recordUserAction passes
detectedType_Interaction == "user_interaction"

\* the type trackNavigation records its entries with
detectedType == "navigation_detected"

\* variant: the arguments of addNavigation are passed in the other order
trackNavigationResume_Swapped(i) ==
  /\ calls[i].pc = "resume"
  /\ IF calls[i].ret # <<>> /\ calls[i].ret # currentScreen
     THEN addNavigation(calls[i].ret, currentScreen, detectedType)
     ELSE UNCHANGED <<navigations, currentScreen>>
  /\ calls' = [calls EXCEPT ![i].pc = "done",
                            ![i].appended = IF navigations' # navigations
                                            THEN Len(navigations') ELSE 0]
  /\ UNCHANGED <<lastCheckTime, lastPageSourceHash, lastAction, clock, files, fixed>>

\* variant: the entry is pushed whenever a screen was returned, changed or not
trackNavigationResume_Push(i) ==
  /\ calls[i].pc = "resume"
  /\ IF calls[i].ret # <<>>
     THEN /\ navigations' = Append(navigations,
                 Navigation(currentScreen, calls[i].ret, detectedType))
          /\ currentScreen' = calls[i].ret
     ELSE UNCHANGED <<navigations, currentScreen>>
  /\ calls' = [calls EXCEPT ![i].pc = "done",
                            ![i].appended = IF navigations' # navigations
                                            THEN Len(navigations') ELSE 0]
  /\ UNCHANGED <<lastCheckTime, lastPageSourceHash, lastAction, clock, files, fixed>>

\* trackNavigation after `await this.getCurrentScreenName()` for call i
trackNavigationResume(i) ==
  /\ calls[i].pc = "resume"
  /\ IF calls[i].ret # <<>> /\ calls[i].ret # currentScreen
     THEN addNavigation(currentScreen, calls[i].ret, detectedType)
     ELSE UNCHANGED <<navigations, currentScreen>>
  /\ calls' = [calls EXCEPT ![i].pc = "done",
                            ![i].appended = IF navigations' # navigations
                                            THEN Len(navigations') ELSE 0]
  /\ UNCHANGED <<lastCheckTime, lastPageSourceHash, lastAction, clock, files, fixed>>

(***************************************************************************)
(* afterClick: a 300 ms timer, then trackNavigation.                       *)
(***************************************************************************)
afterClick ==
  /\ clock + settleDelay <= MaxTime
  /\ calls' = Append(calls, [Call("afterClick", "", "settle") EXCEPT
                               !.wake = clock + settleDelay])
  /\ UNCHANGED <<tracker, clock, files, fixed>>

\* the timer of call i fires
timerFires(i) ==
  /\ calls[i].pc = "settle"
  /\ clock >= calls[i].wake
  /\ trackNavigationBegin(calls, i)
  /\ UNCHANGED <<currentScreen, navigations, lastPageSourceHash, clock, files, fixed>>

\* variant: the count leaves out the App Start entry
TestResult_NoStart(navs) ==
  [file |-> "navigation-tracking.json",
   navigations |-> navs,
   navigation_count |-> Len(navs) - 1]

(***************************************************************************)
(* saveResults: builds the result from this.navigations and writes it;     *)
(* when the write throws it writes the backup; a second throw is logged.   *)
(***************************************************************************)
\* the result object: navigations and navigation_count of the TestResult
\* written to navigation-tracking.json
TestResult(navs) ==
  [file |-> "navigation-tracking.json",
   navigations |-> navs,
   navigation_count |-> Len(navs)]

\* the simpleResult written to navigation-tracking-backup.json
simpleResult(navs) ==
  [file |-> "navigation-tracking-backup.json", navigations |-> navs]

saveResults(outcome) ==
  /\ files' = IF outcome = "ok" THEN TestResult(navigations)
              ELSE IF outcome = "backup" THEN simpleResult(navigations)
              ELSE files
  /\ calls' = Append(calls, Call("saveResults", outcome, "done"))
  /\ UNCHANGED <<tracker, clock, fixed>>

(***************************************************************************)
(* Time passes.                                                            *)
(***************************************************************************)
Tick ==
  /\ clock + TickStep <= MaxTime
  /\ clock' = clock + TickStep
  /\ UNCHANGED <<tracker, calls, files, fixed>>

\* the caller makes at most MaxCalls calls
MayCall == Idle /\ Len(calls) < MaxCalls

Next ==
  \/ MayCall /\ \E id \in ElementIds : recordUserAction(id)
  \/ MayCall /\ \E id \in ElementIds : beforeClick(id)
  \/ MayCall /\ trackNavigation
  \/ MayCall /\ afterClick
  \/ \E i \in 1..Len(calls) : timerFires(i)
  \/ \E i \in 1..Len(calls), resp \in PageSourceResponses : pageSourceReturns(i, resp)
  \/ \E i \in 1..Len(calls), resp \in CurrentUrlResponses : currentUrlReturns(i, resp)
  \/ \E i \in 1..Len(calls) : trackNavigationResume(i)
  \/ MayCall /\ \E outcome \in WriteOutcomes : saveResults(outcome)
  \/ Tick

Spec == Init /\ [][Next]_vars

(***************************************************************************)
(* Runs of checks and recorded actions only, one call more than in Spec,   *)
(* with page sources that name a WebView in either spelling.               *)
(***************************************************************************)
\* number of calls made in one such run
MaxInferenceCalls == 4

InferenceIds == {"Back", "back"}

InferenceSources == {P_Color, P_WebView, P_webview}

\* driver.getPageSource() throws or resolves to one of the page sources
InferenceResponses ==
  {[kind |-> "throw", val |-> <<>>]}
    \cup {[kind |-> "value", val |-> p] : p \in InferenceSources}

MayInfer == Idle /\ Len(calls) < MaxInferenceCalls

NextInference ==
  \/ MayInfer /\ \E id \in InferenceIds : recordUserAction(id)
  \/ MayInfer /\ trackNavigation
  \/ \E i \in 1..Len(calls), resp \in InferenceResponses : pageSourceReturns(i, resp)
  \/ \E i \in 1..Len(calls), resp \in CurrentUrlResponses : currentUrlReturns(i, resp)
  \/ \E i \in 1..Len(calls) : trackNavigationResume(i)
  \/ Tick

SpecInference == Init /\ [][NextInference]_vars

(***************************************************************************)
(* Calls that are not awaited: the caller starts a call while earlier ones *)
(* are still suspended at their await points.  The continuation of an      *)
(* await whose promise is already resolved is a microtask: it runs before  *)
(* any timer fires, any driver response arrives or any time passes.        *)
(***************************************************************************)
\* number of calls made in one such run
MaxOverlapCalls == 3

OverlapIds == {"color", "back"}

\* driver.getPageSource() resolves to one of these page sources
OverlapResponses == {[kind |-> "value", val |-> p] : p \in {P_Home, P_Color}}

MayOverlap == Len(calls) < MaxOverlapCalls

\* no continuation is waiting in the microtask queue
NoContinuationDue == \A i \in 1..Len(calls) : calls[i].pc # "resume"

NextOverlap ==
  \/ MayOverlap /\ \E id \in OverlapIds : beforeClick(id)
  \/ MayOverlap /\ trackNavigation
  \/ MayOverlap /\ afterClick
  \/ NoContinuationDue /\ \E i \in 1..Len(calls) : timerFires(i)
  \/ NoContinuationDue /\ \E i \in 1..Len(calls), resp \in OverlapResponses :
                             pageSourceReturns(i, resp)
  \/ \E i \in 1..Len(calls) : trackNavigationResume(i)
  \/ NoContinuationDue /\ Tick

SpecOverlap == Init /\ [][NextOverlap]_vars

(***************************************************************************)
(* identifyScreenFromPageSource applied on its own to page sources made of *)
(* the markers it looks for.                                               *)
(***************************************************************************)
\* number of markers in one page source
MaxMarkers == 5

Markers ==
  <<M_color, M_Text, M_toast, M_url, M_find, M_Back, M_colorSelection,
    M_textInput, M_showToast, M_showNotification, M_gpsLocation, M_startTest,
    M_ColorTag, M_ColorQuoted, M_GeolocationTag, M_GeolocationQuoted,
    M_SpeedTestTag, M_SpeedTestQuoted, M_lambdatest>>

\* the markers chosen by picked, among the first n, each followed by a space
RECURSIVE joinMarkers(_, _)
joinMarkers(picked, n) ==
  IF n = 0 THEN <<>>
  ELSE joinMarkers(picked, n - 1)
         \o (IF n \in picked THEN Markers[n] \o <<32>> ELSE <<>>)

Snapshots ==
  {joinMarkers(picked, Len(Markers)) :
     picked \in {p \in SUBSET (1..Len(Markers)) : Cardinality(p) <= MaxMarkers}}

InitClassifier ==
  /\ Constructed
  /\ input \in Snapshots
  /\ output = NoOutput

applyIdentifyScreen ==
  /\ output = NoOutput
  /\ output' = [fn |-> "identifyScreenFromPageSource",
                val |-> identifyScreenFromPageSource(input)]
  /\ UNCHANGED <<tracker, clock, calls, files, actionScreenMap, input>>

NextClassifier == applyIdentifyScreen

SpecClassifier == InitClassifier /\ [][NextClassifier]_vars

(***************************************************************************)
(* hashString applied on its own.                                          *)
(***************************************************************************)
\* length of the strings hashed, over the code units of HashAlphabet
HashMaxLen == 5

HashAlphabet == {48, 97, 65535}

HashInputs ==
  UNION {[1..n -> HashAlphabet] : n \in 0..HashMaxLen} \cup PageSources

InitHash ==
  /\ Constructed
  /\ input \in HashInputs
  /\ output = NoOutput

applyHashString ==
  /\ output = NoOutput
  /\ output' = [fn |-> "hashString", val |-> hashString(input)]
  /\ UNCHANGED <<tracker, clock, calls, files, actionScreenMap, input>>

NextHash == applyHashString

SpecHash == InitHash /\ [][NextHash]_vars

(***************************************************************************)
(* addNavigation applied on its own, from the constructed tracker on.      *)
(***************************************************************************)
\* number of entries appended to the journal
MaxAppends == 3

AppendScreens == {S_AppStart, S_HomeScreen, S_ColorScreen}

AppendTypes == {"user_interaction", "navigation_detected"}

applyAddNavigation(previousScreen, screen, navigationType) ==
  /\ Len(navigations) <= MaxAppends
  /\ addNavigation(previousScreen, screen, navigationType)
  /\ output' = [fn |-> "addNavigation", val |-> screen]
  /\ UNCHANGED <<lastCheckTime, lastPageSourceHash, lastAction, clock, calls,
                 files, actionScreenMap, input>>

NextAppend ==
  \E previousScreen \in AppendScreens \cup {<<>>}, screen \in AppendScreens,
     navigationType \in AppendTypes :
    applyAddNavigation(previousScreen, screen, navigationType)

SpecAppend == Init /\ [][NextAppend]_vars

(***************************************************************************)
(* Properties.                                                             *)
(***************************************************************************)
\* call c is a check: trackNavigation, or the one run by afterClick
IsCheck(c) == c.op \in {"trackNavigation", "afterClick"}

\* call c is a check that passed the throttle
AcceptedCheck(c) == IsCheck(c) /\ c.pc # "settle" /\ c.path # "throttled"

\* getCurrentScreenName has returned in call c
Returned(c) == c.pc \in {"resume", "done"} /\ c.path \notin {"none", "throttled"}

\* the current_screen column and the navigation_type column of the journal
Screens == [k \in 1..Len(navigations) |-> navigations[k].current_screen]
Types   == [k \in 1..Len(navigations) |-> navigations[k].navigation_type]

\* C1: the journal never holds two adjacent entries with the same
\* current_screen.
C1_NoAdjacentDuplicates ==
  \A k \in 1..(Len(navigations) - 1) :
    navigations[k].current_screen # navigations[k + 1].current_screen

\* two checks returned the screen of the last entry and it was recorded once
C1_Witness ==
  /\ Len(navigations) = 2
  /\ \E i, j \in 1..Len(calls) :
       /\ i < j
       /\ calls[i].pc = "done" /\ calls[j].pc = "done"
       /\ Returned(calls[i]) /\ Returned(calls[j])
       /\ calls[i].ret = navigations[2].current_screen
       /\ calls[j].ret = navigations[2].current_screen

\* C2: currentScreen equals the current_screen of the most recent journal
\* entry in every state from construction on.
C2_CurrentScreenIsLastEntry ==
  /\ Len(navigations) >= 1
  /\ currentScreen = navigations[Len(navigations)].current_screen

\* the run is beforeClick("color") and then afterClick(), completed
FreshColorClick ==
  /\ Len(calls) = 2
  /\ calls[1].op = "beforeClick" /\ calls[1].arg = "color"
  /\ calls[2].op = "afterClick" /\ calls[2].pc = "done"

\* C3 as stated: after beforeClick("color"), afterClick() on a fresh tracker
\* the journal is [App Start, Color Screen] with types
\* [test_start, user_interaction].
C3_AsStated ==
  FreshColorClick =>
    /\ Screens = <<S_AppStart, S_ColorScreen>>
    /\ Types = <<"test_start", "user_interaction">>

\* C3 amended: after beforeClick("color"), afterClick() on a fresh tracker
\* the journal is [App Start, Color Screen] with types
\* [test_start, navigation_detected], and the second entry leaves Home Screen.
C3_ColorClickJournal ==
  FreshColorClick =>
    /\ Screens = <<S_AppStart, S_ColorScreen>>
    /\ Types = <<"test_start", "navigation_detected">>
    /\ navigations[2].previous_screen = S_HomeScreen

C3_Witness == FreshColorClick /\ calls[2].path = "hint"

\* C4: the first journal entry is ("", "App Start", test_start), pushed at
\* construction, in every state.
C4_FirstEntry ==
  /\ Len(navigations) >= 1
  /\ navigations[1].previous_screen = <<>>
  /\ navigations[1].current_screen = S_AppStart
  /\ navigations[1].navigation_type = "test_start"

\* entries were pushed by recordUserAction and by a check
C4_Witness ==
  /\ Len(navigations) >= 3
  /\ navigations[1].current_screen = S_AppStart
  /\ \E k \in 2..Len(navigations) : navigations[k].navigation_type = "user_interaction"
  /\ \E k \in 2..Len(navigations) : navigations[k].navigation_type = "navigation_detected"

\* C5: after recordUserAction("color") or beforeClick("color"), of two
\* accepted checks that follow the first returns "Color Screen" through the
\* hint and resets lastAction, the second does not return through the hint.
C5_OneShotHint ==
  \A i \in 1..Len(calls) :
    (/\ calls[i].op \in {"recordUserAction", "beforeClick"}
     /\ calls[i].arg = "color"
     /\ i + 1 <= Len(calls)
     /\ AcceptedCheck(calls[i + 1]))
    => /\ calls[i + 1].path = "hint"
       /\ calls[i + 1].ret = S_ColorScreen
       /\ (i + 1 = Len(calls) => lastAction = "")
       /\ (i + 2 <= Len(calls) /\ AcceptedCheck(calls[i + 2])
             => calls[i + 2].path # "hint")

C5_Witness ==
  /\ Len(calls) >= 3
  /\ calls[1].op = "recordUserAction" /\ calls[1].arg = "color"
  /\ calls[2].pc = "done" /\ calls[2].path = "hint"
  /\ IsCheck(calls[3]) /\ calls[3].pc = "done"
  /\ calls[3].path \in {"classifier", "fallback", "webview"}

\* the check of call i starts in this step
CheckStarts(i) ==
  \/ i = Len(calls) + 1 /\ Len(calls') = i /\ calls'[i].op = "trackNavigation"
  \/ i <= Len(calls) /\ calls[i].pc = "settle" /\ calls'[i].pc # "settle"

\* C6: a check that starts less than minCheckInterval after the start of the
\* last accepted check does nothing (no inference, no driver call, tracker
\* state unchanged); any other check records its start as lastCheckTime
\* before it goes on, and nothing else writes lastCheckTime.
C6_Throttle ==
  [][/\ (\A i \in 1..Len(calls') : ~CheckStarts(i)) => lastCheckTime' = lastCheckTime
     /\ \A i \in 1..Len(calls') :
       CheckStarts(i) =>
         IF clock - lastCheckTime < 300
         THEN /\ calls'[i].pc = "done"
              /\ calls'[i].path = "throttled"
              /\ calls'[i].ret = <<>>
              /\ calls'[i].srcKind = "none" /\ calls'[i].urlKind = "none"
              /\ ~calls'[i].classified
              /\ tracker' = tracker
         ELSE /\ lastCheckTime' = clock
              /\ calls'[i].path # "throttled"
              /\ calls'[i].pc \in {"source", "resume"}
    ]_vars

\* a check was accepted and a later one, started within the interval, throttled
C6_Witness ==
  \E i, j \in 1..Len(calls) :
    /\ i < j
    /\ AcceptedCheck(calls[i])
    /\ calls[j].path = "throttled" /\ calls[j].pc = "done"

\* this step is a call of recordUserAction
RecordUserActionStep ==
  /\ Len(calls') = Len(calls) + 1
  /\ calls'[Len(calls')].op = "recordUserAction"

\* C7 as stated: recordUserAction only sets lastAction; the journal is the
\* same before and after the call.
C7_AsStated ==
  [][RecordUserActionStep =>
       /\ lastAction' = calls'[Len(calls')].arg
       /\ navigations' = navigations]_vars

\* C7 amended: recordUserAction sets lastAction; when the id is a key of the
\* action map whose screen differs from currentScreen it also pushes one
\* entry (currentScreen, mapped screen, user_interaction) and makes the
\* mapped screen current; otherwise journal and currentScreen are unchanged.
\* lastCheckTime and lastPageSourceHash are never changed.
C7_RecordUserActionEffect ==
  [][RecordUserActionStep =>
       LET id == calls'[Len(calls')].arg IN
       /\ lastAction' = id
       /\ lastCheckTime' = lastCheckTime
       /\ lastPageSourceHash' = lastPageSourceHash
       /\ IF id \in DOMAIN actionScreenMap /\ actionScreenMap[id] # currentScreen
          THEN /\ Len(navigations') = Len(navigations) + 1
               /\ SubSeq(navigations', 1, Len(navigations)) = navigations
               /\ navigations'[Len(navigations')].previous_screen = currentScreen
               /\ navigations'[Len(navigations')].current_screen = actionScreenMap[id]
               /\ navigations'[Len(navigations')].navigation_type = "user_interaction"
               /\ currentScreen' = actionScreenMap[id]
          ELSE /\ navigations' = navigations
               /\ currentScreen' = currentScreen]_vars

\* recordUserAction has pushed an entry, and has also been called without effect
C7_Witness ==
  /\ \E k \in 2..Len(navigations) : navigations[k].navigation_type = "user_interaction"
  /\ \E i \in 1..Len(calls) : calls[i].op = "recordUserAction" /\ calls[i].arg = "back"

\* C8: no call raises to its caller; a driver failure (getPageSource throws
\* or returns '', getCurrentUrl throws or returns a non-string or '') is
\* handled where it occurs, the check goes on to the fallback, and the
\* journal keeps its first entry and has no adjacent duplicates.
C8_NeverRaises ==
  /\ \A i \in 1..Len(calls) :
       /\ ~calls[i].raised
       /\ calls[i].path \notin {"catch", "error"}
       /\ (calls[i].srcKind \in {"throw", "empty"} =>
             /\ calls[i].pc \in {"resume", "done"}
             /\ calls[i].path = "fallback"
             /\ calls[i].ret # <<>>)
       /\ (calls[i].urlKind \in {"throw", "other"} =>
             /\ calls[i].pc \in {"resume", "done"}
             /\ calls[i].path = "fallback"
             /\ calls[i].ret # <<>>)
  /\ Len(navigations) >= 1
  /\ navigations[1].current_screen = S_AppStart
  /\ \A k \in 1..(Len(navigations) - 1) :
       navigations[k + 1].current_screen # navigations[k].current_screen

\* getPageSource threw in one completed check and getCurrentUrl in another
C8_Witness ==
  \E i, j \in 1..Len(calls) :
    /\ calls[i].pc = "done" /\ calls[i].srcKind = "throw"
    /\ calls[j].pc = "done" /\ calls[j].urlKind = "throw"

\* code units '0'..'9'
IsDigits(str) == Len(str) \in 1..2 /\ \A k \in 1..Len(str) : str[k] \in 48..57

\* str matches /^Screen at \d{1,2}:\d{1,2}:\d{1,2}$/
IsScreenAtName(str) ==
  /\ Len(str) > Len(S_ScreenAt)
  /\ SubSeq(str, 1, Len(S_ScreenAt)) = S_ScreenAt
  /\ LET rest == SubSeq(str, Len(S_ScreenAt) + 1, Len(str)) IN
     \E a, b \in 1..Len(rest) :
       /\ a < b /\ rest[a] = 58 /\ rest[b] = 58
       /\ IsDigits(SubSeq(rest, 1, a - 1))
       /\ IsDigits(SubSeq(rest, a + 1, b - 1))
       /\ IsDigits(SubSeq(rest, b + 1, Len(rest)))

\* C9: when getPageSource throws or returns '' in an accepted check that had
\* no usable hint, getCurrentScreenName returns the non-empty name
\* "Screen at H:M:S" of the wall clock, lastPageSourceHash is unchanged and
\* getCurrentUrl is not called.
C9_Fallback ==
  [][\A i \in 1..Len(calls) :
       (/\ calls[i].pc = "source" /\ calls'[i].pc # "source"
        /\ calls'[i].srcKind \in {"throw", "empty"})
       => /\ calls'[i].pc = "resume"
          /\ calls'[i].path = "fallback"
          /\ IsScreenAtName(calls'[i].ret)
          /\ calls'[i].ret =
               S_ScreenAt \o NatToString((clock \div 3600000) % 24) \o <<58>>
                          \o NatToString((clock \div 60000) % 60) \o <<58>>
                          \o NatToString((clock \div 1000) % 60)
          /\ calls'[i].urlKind = "none"
          /\ lastPageSourceHash' = lastPageSourceHash]_vars

\* a check fell back after getPageSource threw, with a fingerprint already
\* stored
C9_Witness ==
  /\ lastPageSourceHash # <<>>
  /\ \E i \in 1..Len(calls) :
       calls[i].srcKind = "throw" /\ calls[i].path = "fallback"
         /\ IsScreenAtName(calls[i].ret)

\* calls i and i+1 are accepted checks that got the same non-empty page source
SameSourceTwice(cs, i) ==
  /\ i + 1 <= Len(cs)
  /\ AcceptedCheck(cs[i]) /\ AcceptedCheck(cs[i + 1])
  /\ cs[i].pc = "done" /\ Returned(cs[i + 1])
  /\ cs[i].srcKind = "text" /\ cs[i + 1].srcKind = "text"
  /\ cs[i].pageSource = cs[i + 1].pageSource

Identified == output.fn = "identifyScreenFromPageSource"

\* the page source holds the three home markers
HasHomeMarkers(pageSource) ==
  /\ includes(pageSource, M_color)
  /\ includes(pageSource, M_Text)
  /\ includes(pageSource, M_toast)

\* C11: for every page source that contains id="color", id="Text" and
\* id="toast", identifyScreenFromPageSource returns "Home Screen", whatever
\* other markers the page source contains.
C11_HomeMarkersWin ==
  (Identified /\ HasHomeMarkers(input)) => output.val = S_HomeScreen

\* a page source with the home markers and the markers of a later rule was
\* classified
C11_Witness ==
  /\ Identified
  /\ HasHomeMarkers(input)
  /\ includes(input, M_Back) /\ includes(input, M_colorSelection)
  /\ output.val = S_HomeScreen

\* C12: the journal is append-only: every step leaves it as it was or
\* extends it by exactly one entry at the end; no entry is removed,
\* reordered or rewritten.
C12_AppendOnly ==
  [][\/ navigations' = navigations
     \/ /\ Len(navigations') = Len(navigations) + 1
        /\ SubSeq(navigations', 1, Len(navigations)) = navigations]_vars

\* entries were appended by a user action and by a check
C12_Witness ==
  /\ Len(navigations) >= 3
  /\ \E k \in 1..Len(navigations) : navigations[k].navigation_type = "user_interaction"
  /\ \E k \in 1..Len(navigations) : navigations[k].navigation_type = "navigation_detected"

\* the step is a call of beforeClick
BeforeClickStep ==
  /\ Len(calls') = Len(calls) + 1
  /\ calls'[Len(calls')].op = "beforeClick"

\* the step leaves lastAction, currentScreen and the journal as
\* beforeClick(id) leaves them when called in the state before the step
AsBeforeClick(id) ==
  /\ lastAction' = (IF id # "" /\ id \in DOMAIN actionScreenMap
                    THEN id ELSE lastAction)
  /\ currentScreen' = currentScreen
  /\ navigations' = navigations

\* the step leaves lastAction, currentScreen and the journal as
\* recordUserAction(id) leaves them when called in the state before the step
AsRecordUserAction(id) ==
  /\ lastAction' = id
  /\ IF id \in DOMAIN actionScreenMap /\ actionScreenMap[id] # <<>>
          /\ actionScreenMap[id] # currentScreen
     THEN /\ navigations' = Append(navigations,
                 Navigation(currentScreen, actionScreenMap[id], "user_interaction"))
          /\ currentScreen' = actionScreenMap[id]
     ELSE /\ navigations' = navigations
          /\ currentScreen' = currentScreen

\* C13 as stated: for every element id and every reachable state,
\* beforeClick and recordUserAction leave the tracker in the same state
\* (lastAction, currentScreen and journal).
C13_AsStated ==
  [][/\ RecordUserActionStep => AsBeforeClick(calls'[Len(calls')].arg)
     /\ BeforeClickStep => AsRecordUserAction(calls'[Len(calls')].arg)]_vars

\* beforeClick(id) and recordUserAction(id) agree in this state: id is a key
\* of the map whose screen is the current one, or id is no key and is
\* already the last action
SameEffect(id) ==
  \/ id \in DOMAIN actionScreenMap /\ actionScreenMap[id] = currentScreen
  \/ id \notin DOMAIN actionScreenMap /\ lastAction = id

\* C13 amended: beforeClick(id) and recordUserAction(id) leave the tracker
\* in the same state (lastAction, currentScreen and journal) exactly when id
\* is a key of the action map whose screen is currentScreen, or id is not a
\* key and already equals lastAction.  Otherwise they differ:
\* recordUserAction stores every id in lastAction and pushes a
\* user_interaction entry for a key that maps to another screen, beforeClick
\* stores only keys of the map and never touches currentScreen or the
\* journal.
C13_SameEffectExactlyWhen ==
  [][/\ RecordUserActionStep =>
          (AsBeforeClick(calls'[Len(calls')].arg)
             <=> SameEffect(calls'[Len(calls')].arg))
     /\ BeforeClickStep =>
          /\ currentScreen' = currentScreen
          /\ navigations' = navigations
          /\ lastAction' \in {lastAction} \cup DOMAIN actionScreenMap
          /\ (AsRecordUserAction(calls'[Len(calls')].arg)
                <=> SameEffect(calls'[Len(calls')].arg))]_vars

\* both methods were called where they agree (Back on the home screen) and
\* where they differ (an id that is no key)
C13_Witness ==
  /\ Len(calls) = 3
  /\ calls[1].op = "recordUserAction" /\ calls[1].arg = "Back"
  /\ calls[2].op = "beforeClick" /\ calls[2].arg = "Back"
  /\ calls[3].op = "beforeClick" /\ calls[3].arg = "back"
  /\ lastAction = "Back"
  /\ Len(navigations) = 1

\* call i completes in this step: getCurrentScreenName has returned and
\* trackNavigation compares the name with currentScreen
CheckCompletes(i) ==
  /\ IsCheck(calls[i]) /\ calls[i].pc = "resume" /\ calls'[i].pc = "done"

\* C14: an accepted check whose inferred name is non-empty and differs from
\* currentScreen appends exactly one entry (currentScreen before the append,
\* the inferred name, navigation_detected) and makes the name current; one
\* whose inferred name equals currentScreen appends nothing.  A check
\* appends only when it completes, so no call appends more than one entry.
C14_AppendsOnlyOnChange ==
  [][/\ \A i \in 1..Len(calls) :
          CheckCompletes(i) =>
            IF calls[i].ret # <<>> /\ calls[i].ret # currentScreen
            THEN /\ navigations' = Append(navigations,
                      [previous_screen |-> currentScreen,
                       current_screen |-> calls[i].ret,
                       navigation_type |-> "navigation_detected"])
                 /\ currentScreen' = calls[i].ret
            ELSE /\ navigations' = navigations
                 /\ currentScreen' = currentScreen
     /\ navigations' # navigations =>
          /\ Len(navigations') = Len(navigations) + 1
          /\ \/ RecordUserActionStep
             \/ \E i \in 1..Len(calls) : CheckCompletes(i)]_vars

\* a check appended the Color Screen entry and the next accepted check, which
\* inferred Color Screen again, appended nothing
C14_Witness ==
  /\ Len(calls) >= 2
  /\ AcceptedCheck(calls[1]) /\ calls[1].pc = "done"
  /\ AcceptedCheck(calls[2]) /\ calls[2].pc = "done"
  /\ calls[1].ret = S_ColorScreen /\ calls[2].ret = S_ColorScreen
  /\ navigations = <<[previous_screen |-> <<>>, current_screen |-> S_AppStart,
                      navigation_type |-> "test_start"],
                     [previous_screen |-> S_HomeScreen,
                      current_screen |-> S_ColorScreen,
                      navigation_type |-> "navigation_detected"]>>

\* the step is a call of saveResults
SaveResultsStep ==
  /\ Len(calls') = Len(calls) + 1
  /\ calls'[Len(calls')].op = "saveResults"

\* C15: saveResults never raises and leaves the journal, currentScreen,
\* lastAction, lastPageSourceHash and lastCheckTime unchanged, whether the
\* write succeeds, falls back to the backup file or fails twice; the result
\* it writes lists the journal entries in append order with navigation_count
\* equal to the journal length, and the backup lists the same entries.
C15_SaveResultsReadOnly ==
  [][SaveResultsStep =>
       LET outcome == calls'[Len(calls')].arg IN
       /\ navigations' = navigations
       /\ currentScreen' = currentScreen
       /\ lastAction' = lastAction
       /\ lastPageSourceHash' = lastPageSourceHash
       /\ lastCheckTime' = lastCheckTime
       /\ ~calls'[Len(calls')].raised
       /\ calls'[Len(calls')].pc = "done"
       /\ outcome = "ok" =>
            /\ files'.file = "navigation-tracking.json"
            /\ files'.navigations = navigations
            /\ files'.navigation_count = Len(navigations)
       /\ outcome = "backup" =>
            /\ files'.file = "navigation-tracking-backup.json"
            /\ files'.navigations = navigations
       /\ outcome = "fail" => files' = files]_vars

\* a journal of two entries was saved, and a later save failed twice
C15_Witness ==
  /\ Len(calls) = 3
  /\ calls[2].op = "saveResults" /\ calls[2].arg = "ok"
  /\ calls[3].op = "saveResults" /\ calls[3].arg = "fail"
  /\ files.file = "navigation-tracking.json"
  /\ files.navigation_count = 2
  /\ Len(navigations) = 2

\* call i is the first check of the run and has passed its settle delay
FirstCheck(i) ==
  /\ IsCheck(calls[i]) /\ calls[i].pc # "settle"
  /\ \A j \in 1..(i - 1) : ~IsCheck(calls[j])

\* C16: right after construction currentScreen is "Home Screen", lastAction
\* and lastPageSourceHash are empty, lastCheckTime is 0 and the journal is
\* exactly the single App Start entry; the first check is never throttled.
C16_AfterConstruction ==
  /\ calls = <<>> =>
       /\ currentScreen = S_HomeScreen
       /\ lastAction = ""
       /\ lastPageSourceHash = <<>>
       /\ lastCheckTime = 0
       /\ navigations = <<[previous_screen |-> <<>>,
                           current_screen |-> S_AppStart,
                           navigation_type |-> "test_start"]>>
  /\ \A i \in 1..Len(calls) : FirstCheck(i) => calls[i].path # "throttled"

\* the first call after construction is a check, made at once and accepted
C16_Witness ==
  /\ Len(calls) = 1
  /\ calls[1].op = "trackNavigation" /\ calls[1].pc = "source"
  /\ clock = StartTime /\ lastCheckTime = StartTime
  /\ currentScreen = S_HomeScreen /\ Len(navigations) = 1

\* the ten pairs of the seed table
SeedTable ==
  {<<"color", S_ColorScreen>>, <<"Text", S_TextScreen>>,
   <<"toast", S_ToastScreen>>, <<"notification", S_NotificationScreen>>,
   <<"geoLocation", S_GeolocationScreen>>, <<"buttonPage", S_HomeScreen>>,
   <<"speedTest", S_SpeedTestScreen>>, <<"webview", S_WebViewScreen>>,
   <<"find", S_BrowserContentScreen>>, <<"Back", S_HomeScreen>>}

\* C17: in every reachable state the action-to-screen map is exactly the
\* ten-pair seed table, and has(id) is true exactly when get(id) yields a
\* non-empty screen name.
C17_MapIsSeedTable ==
  /\ {<<id, actionScreenMap[id]>> : id \in DOMAIN actionScreenMap} = SeedTable
  /\ \A id \in DOMAIN actionScreenMap \cup ElementIds \cup {""} :
       mapHas(id) <=> mapGet(id) # <<>>

\* the map was read by recordUserAction and by the hint of a check
C17_Witness ==
  /\ Len(calls) = 3
  /\ \E i \in 1..Len(calls) : calls[i].op = "recordUserAction"
  /\ \E i \in 1..Len(calls) : calls[i].path = "hint" /\ calls[i].pc = "done"
  /\ Len(navigations) >= 2

\* hashString has been applied to input
Hashed == output.fn = "hashString"

\* h := 31*h + c modulo 2^32, h held as four bytes, least significant first
FoldStep(b, c) ==
  LET x1 == 31 * b[1] + c
      x2 == 31 * b[2] + (x1 \div 256)
      x3 == 31 * b[3] + (x2 \div 256)
      x4 == 31 * b[4] + (x3 \div 256)
  IN  <<x1 % 256, x2 % 256, x3 % 256, x4 % 256>>

\* the fold over the first n characters of str
RECURSIVE Fold(_, _)
Fold(str, n) ==
  IF n = 0 THEN <<0, 0, 0, 0>>
  ELSE CHOOSE b \in {FoldStep(prev, str[n]) : prev \in {Fold(str, n - 1)}} : TRUE

\* the four bytes read as a signed 32-bit integer
Signed32(b) ==
  (IF b[4] >= 128 THEN (b[4] - 256) * 16777216 ELSE b[4] * 16777216)
    + b[3] * 65536 + b[2] * 256 + b[1]

\* the digits of a decimal string, without its sign
Digits(str) == IF Len(str) > 0 /\ str[1] = 45 THEN Tail(str) ELSE str

\* d, a digit string as long as lim, denotes a number no greater than lim
NoGreater(d, lim) ==
  \/ d = lim
  \/ \E k \in 1..Len(d) :
       /\ d[k] < lim[k]
       /\ \A j \in 1..(k - 1) : d[j] = lim[j]

\* str is the decimal string of an integer of the signed 32-bit range
IsInt32String(str) ==
  LET d == Digits(str) IN
  /\ Len(d) \in 1..10
  /\ \A k \in 1..Len(d) : d[k] \in 48..57
  /\ Len(d) > 1 => d[1] # 48
  /\ str # <<45, 48>>
  /\ Len(d) = 10 =>
       IF str[1] = 45
       THEN NoGreater(d, <<50, 49, 52, 55, 52, 56, 51, 54, 52, 56>>)
       ELSE NoGreater(d, <<50, 49, 52, 55, 52, 56, 51, 54, 52, 55>>)

\* the integer a decimal string of the signed 32-bit range denotes; a
\* negative one is accumulated below zero
RECURSIVE ParseDigits(_, _, _)
ParseDigits(d, n, sign) ==
  IF n = 0 THEN 0
  ELSE 10 * ParseDigits(d, n - 1, sign) + sign * (d[n] - 48)

ParseInt(str) ==
  ParseDigits(Digits(str), Len(Digits(str)),
              IF Len(str) > 0 /\ str[1] = 45 THEN 0 - 1 ELSE 1)

\* C18: hashString folds h := 31*h + charCode over every character in
\* order, wrapping to 32 bits at each step, and returns the decimal string of
\* the signed value of h: the result is a function of the whole input, lies
\* in the signed 32-bit range, and is "0" for the empty string.
C18_HashString ==
  Hashed =>
    /\ IsInt32String(output.val)
    /\ ParseInt(output.val) = Signed32(Fold(input, Len(input)))
    /\ input = <<>> => output.val = <<48>>

\* a page source was hashed whose fold wrapped below zero
C18_Witness ==
  /\ Hashed
  /\ Len(input) > HashMaxLen
  /\ output.val[1] = 45

\* C19: a throttled check changes nothing: the journal, currentScreen,
\* lastAction (a pending hint stays pending), lastPageSourceHash and
\* lastCheckTime are as before, so a rejected call does not move the
\* throttle window; the call is over at once and does nothing later.
C19_ThrottledIsNoOp ==
  [][/\ \A i \in 1..Len(calls') :
          (CheckStarts(i) /\ calls'[i].path = "throttled") =>
            /\ navigations' = navigations
            /\ currentScreen' = currentScreen
            /\ lastAction' = lastAction
            /\ lastPageSourceHash' = lastPageSourceHash
            /\ lastCheckTime' = lastCheckTime
            /\ files' = files
            /\ calls'[i].pc = "done"
     /\ \A i \in 1..Len(calls) :
          calls[i].path = "throttled" => calls'[i] = calls[i]]_vars

\* a check was throttled while a hint was pending, after the interval's
\* first half had passed; the hint and the time of the accepted check remain
C19_Witness ==
  /\ Len(calls) = 3
  /\ AcceptedCheck(calls[1]) /\ calls[1].pc = "done"
  /\ calls[2].op = "beforeClick" /\ calls[2].arg = "color"
  /\ IsCheck(calls[3]) /\ calls[3].path = "throttled"
  /\ lastAction = "color"
  /\ lastCheckTime = StartTime /\ clock = StartTime + TickStep

\* C20: an accepted check that starts with lastAction set to a key of the
\* action map returns the mapped screen without calling getPageSource or
\* getCurrentUrl and without changing lastPageSourceHash; an accepted check
\* that starts with no such hint calls getPageSource.
C20_HintBeforeSnapshot ==
  [][/\ \A i \in 1..Len(calls') :
          (CheckStarts(i) /\ calls'[i].path # "throttled") =>
            IF lastAction # "" /\ lastAction \in DOMAIN actionScreenMap
            THEN /\ calls'[i].pc = "resume"
                 /\ calls'[i].path = "hint"
                 /\ calls'[i].ret = actionScreenMap[lastAction]
                 /\ lastPageSourceHash' = lastPageSourceHash
            ELSE /\ calls'[i].pc = "source"
                 /\ calls'[i].path = "none"
     /\ \A i \in 1..Len(calls) :
          calls[i].path = "hint" =>
            /\ calls'[i].pc \in {"resume", "done"}
            /\ calls'[i].srcKind = "none" /\ calls'[i].urlKind = "none"
            /\ ~calls'[i].classified
            /\ calls'[i].pc # calls[i].pc =>
                 lastPageSourceHash' = lastPageSourceHash]_vars

\* a check stored a fingerprint, and a later check answered from the hint
\* and pushed the mapped screen, the fingerprint being the one stored
C20_Witness ==
  /\ Len(calls) = 3
  /\ AcceptedCheck(calls[1]) /\ calls[1].srcKind = "text"
  /\ calls[2].op = "beforeClick" /\ calls[2].arg = "color"
  /\ IsCheck(calls[3]) /\ calls[3].path = "hint" /\ calls[3].pc = "done"
  /\ calls[3].srcKind = "none" /\ calls[3].urlKind = "none"
  /\ lastPageSourceHash = hashString(calls[1].pageSource)
  /\ navigations[Len(navigations)].current_screen = S_ColorScreen

\* the step is a call of addNavigation made on its own
AddNavigationStep == output'.fn = "addNavigation" /\ vars' # vars

YieldedScreen ==
  IF RecordUserActionStep
  THEN mapGet(calls'[Len(calls')].arg)
  ELSE IF \E i \in 1..Len(calls) : CheckCompletes(i)
  THEN (CHOOSE c \in {calls[i] : i \in {j \in 1..Len(calls) : CheckCompletes(j)}} :
          TRUE).ret
  ELSE <<>>

\* C22: deduplication looks at the last entry only: whenever an accepted
\* check or recordUserAction yields a screen that differs from currentScreen
\* an entry for it is appended, also when that screen already occurs earlier
\* in the journal.
C22_LastEntryOnly ==
  [][(YieldedScreen # <<>> /\ YieldedScreen # currentScreen) =>
       /\ Len(navigations') = Len(navigations) + 1
       /\ navigations'[Len(navigations')].current_screen = YieldedScreen
       /\ navigations'[Len(navigations')].previous_screen = currentScreen]_vars

\* Color Screen, Home Screen, Color Screen were recorded as three transitions
C22_Witness ==
  /\ Len(navigations) = 4
  /\ navigations[2].current_screen = S_ColorScreen
  /\ navigations[3].current_screen = S_HomeScreen
  /\ navigations[4].current_screen = S_ColorScreen

\* the rules of the classifier as tests on a page source
HasWebViewMarkers(p) == includes(p, M_url) /\ includes(p, M_find)

HasBack(p) == includes(p, M_Back)

HasDetailMarker(p) ==
  \/ includes(p, M_colorSelection) \/ includes(p, M_textInput)
  \/ includes(p, M_showToast) \/ includes(p, M_showNotification)
  \/ includes(p, M_gpsLocation) \/ includes(p, M_startTest)

HasColorTitle(p) == includes(p, M_ColorTag) \/ includes(p, M_ColorQuoted)

HasGeolocationTitle(p) ==
  includes(p, M_GeolocationTag) \/ includes(p, M_GeolocationQuoted)

HasSpeedTestTitle(p) ==
  includes(p, M_SpeedTestTag) \/ includes(p, M_SpeedTestQuoted)

HasTitle(p) == HasColorTitle(p) \/ HasGeolocationTitle(p) \/ HasSpeedTestTitle(p)

\* the screen of the first title-text rule that matches
TitleScreen(p) ==
  IF HasColorTitle(p) THEN S_ColorScreen
  ELSE IF HasGeolocationTitle(p) THEN S_GeolocationScreen
  ELSE S_SpeedTestScreen

\* the screen of the first back/detail rule that matches
DetailScreen(p) ==
  IF includes(p, M_colorSelection) THEN S_ColorScreen
  ELSE IF includes(p, M_textInput) THEN S_TextScreen
  ELSE IF includes(p, M_showToast) THEN S_ToastScreen
  ELSE IF includes(p, M_showNotification) THEN S_NotificationScreen
  ELSE IF includes(p, M_gpsLocation) THEN S_GeolocationScreen
  ELSE S_SpeedTestScreen

\* C23: the classifier is first-match-wins: after the home rule the
\* id="url"/id="find" rule beats every back/detail rule; a back marker with
\* a detail marker beats the title-text rules; a back marker without a
\* detail marker falls through to the title-text rules; the external-site
\* rule applies only when nothing earlier matched; a page source that
\* matches no rule yields nothing.
C23_FirstMatchWins ==
  (Identified /\ ~HasHomeMarkers(input)) =>
    /\ HasWebViewMarkers(input) => output.val = S_WebViewScreen
    /\ (~HasWebViewMarkers(input) /\ HasBack(input) /\ HasDetailMarker(input))
         => output.val = DetailScreen(input)
    /\ (~HasWebViewMarkers(input) /\ ~(HasBack(input) /\ HasDetailMarker(input))
          /\ HasTitle(input))
         => output.val = TitleScreen(input)
    /\ output.val = S_LambdaTestWebsite <=>
         /\ includes(input, M_lambdatest)
         /\ ~HasWebViewMarkers(input)
         /\ ~(HasBack(input) /\ HasDetailMarker(input))
         /\ ~HasTitle(input)
    /\ output.val = <<>> <=>
         /\ ~includes(input, M_lambdatest)
         /\ ~HasWebViewMarkers(input)
         /\ ~(HasBack(input) /\ HasDetailMarker(input))
         /\ ~HasTitle(input)

\* a page source with a back marker, a detail marker, a title of another
\* screen and the external site was classified by its detail marker
C23_Witness ==
  /\ Identified
  /\ HasBack(input) /\ includes(input, M_textInput)
  /\ HasColorTitle(input) /\ includes(input, M_lambdatest)
  /\ output.val = S_TextScreen

\* the step is a call of beforeClick or recordUserAction with an id that is
\* not a key of the map
UnknownIdStep ==
  /\ RecordUserActionStep \/ BeforeClickStep
  /\ calls'[Len(calls')].arg \notin DOMAIN actionScreenMap

\* C24: an id that is not a key of the map (keys are case-sensitive, "back"
\* is not "Back") produces no hint: beforeClick and recordUserAction with
\* such an id leave the journal and currentScreen unchanged, beforeClick
\* also leaves lastAction, and so a pending valid hint, unchanged, and an
\* accepted check that starts with lastAction not a key goes to the page
\* source; every check that resolves through the hint returns the screen of
\* a key.
C24_UnknownIdNoHint ==
  [][/\ UnknownIdStep =>
          /\ navigations' = navigations
          /\ currentScreen' = currentScreen
          /\ BeforeClickStep => lastAction' = lastAction
     /\ \A i \in 1..Len(calls') :
          (CheckStarts(i) /\ calls'[i].path # "throttled"
             /\ lastAction \notin DOMAIN actionScreenMap) =>
            /\ calls'[i].pc = "source"
            /\ calls'[i].path # "hint"
            /\ lastAction' = lastAction
     /\ \A i \in 1..Len(calls') :
          (CheckStarts(i) /\ calls'[i].path = "hint") =>
            /\ lastAction \in DOMAIN actionScreenMap
            /\ calls'[i].ret = actionScreenMap[lastAction]]_vars

\* beforeClick("back") left the hint of beforeClick("color") pending, and the
\* check resolved through it
C24_Witness ==
  /\ Len(calls) = 3
  /\ calls[1].op = "beforeClick" /\ calls[1].arg = "color"
  /\ calls[2].op = "beforeClick" /\ calls[2].arg = "back"
  /\ IsCheck(calls[3]) /\ calls[3].path = "hint"
  /\ calls[3].ret = S_ColorScreen

\* the types of journal n are among the three, test_start at index 1 only
TypesInOrder(n) ==
  \A k \in 1..Len(n) :
    /\ n[k].navigation_type \in {"test_start", "user_interaction", "navigation_detected"}
    /\ n[k].navigation_type = "test_start" <=> k = 1

\* C25: every entry's navigation_type is test_start, user_interaction or
\* navigation_detected; test_start occurs exactly once, in the first entry;
\* an entry appended by trackNavigation or afterClick carries
\* navigation_detected, also when the screen came from the hint, and one
\* appended by recordUserAction carries user_interaction.
C25_NavigationTypes ==
  [][/\ Len(navigations) >= 1 /\ TypesInOrder(navigations)
     /\ TypesInOrder(navigations')
     /\ (navigations' # navigations /\ RecordUserActionStep) =>
          navigations'[Len(navigations')].navigation_type = "user_interaction"
     /\ (navigations' # navigations /\ \E i \in 1..Len(calls) : CheckCompletes(i)) =>
          navigations'[Len(navigations')].navigation_type = "navigation_detected"]_vars

\* the journal holds the three types, the last entry appended by a check
\* that resolved through the hint
C25_Witness ==
  /\ Len(calls) = 3
  /\ calls[1].op = "recordUserAction"
  /\ calls[3].path = "hint" /\ calls[3].pc = "done"
  /\ Types = <<"test_start", "user_interaction", "navigation_detected">>

\* the text of url after its last '/', the whole of url when it has none
AfterLastSlash(url) ==
  LET k == CHOOSE n \in 0..Len(url) :
             /\ \A j \in (Len(url) - n + 1)..Len(url) : url[j] # 47
             /\ n = Len(url) \/ url[Len(url) - n] = 47
  IN  SubSeq(url, Len(url) - k + 1, Len(url))

\* "Screen at H:M:S" for the wall clock t
ScreenAt(t) ==
  S_ScreenAt \o NatToString((t \div 3600000) % 24) \o <<58>>
             \o NatToString((t \div 60000) % 60) \o <<58>>
             \o NatToString((t \div 1000) % 60)

\* getPageSource settles for call i in this step
SourceArrives(i) == calls[i].pc = "source" /\ calls'[i].pc # "source"

\* getCurrentUrl settles for call i in this step
UrlArrives(i) == calls[i].pc = "url" /\ calls'[i].pc # "url"

\* C26: a check whose page source is non-empty, has a fingerprint other than
\* the stored one, is not classified, and contains "WebView" or "webview"
\* asks for the current URL; it resolves to "WebView: " followed by the text
\* after the last '/' of the URL, or by the whole URL when that text is
\* empty; when getCurrentUrl throws or returns an empty or non-string value
\* it resolves to the wall-clock fallback.
C26_WebViewLabel ==
  [][\A i \in 1..Len(calls) :
       /\ SourceArrives(i) =>
            LET p == calls'[i].pageSource IN
            (/\ p # <<>>
             /\ hashString(p) # lastPageSourceHash
             /\ ~HasHomeMarkers(p) /\ ~HasWebViewMarkers(p)
             /\ ~(HasBack(p) /\ HasDetailMarker(p)) /\ ~HasTitle(p)
             /\ ~includes(p, M_lambdatest)
             /\ includes(p, <<87, 101, 98, 86, 105, 101, 119>>)
                  \/ includes(p, <<119, 101, 98, 118, 105, 101, 119>>))
            <=> calls'[i].pc = "url"
       /\ UrlArrives(i) =>
            LET url == calls'[i].url IN
            /\ calls'[i].pc = "resume"
            /\ IF calls'[i].urlKind = "string" /\ url # <<>>
               THEN /\ calls'[i].path = "webview"
                    /\ calls'[i].ret =
                         <<87, 101, 98, 86, 105, 101, 119, 58, 32>>
                           \o (IF AfterLastSlash(url) # <<>>
                               THEN AfterLastSlash(url) ELSE url)
               ELSE /\ calls'[i].urlKind \in {"throw", "other", "string"}
                    /\ calls'[i].path = "fallback"
                    /\ calls'[i].ret = ScreenAt(clock)]_vars

\* checks on a "WebView" and on a "webview" page source were labelled from
\* the URL, one by its last segment and one by the whole URL
C26_Witness ==
  \E i, j \in 1..Len(calls) :
    /\ calls[i].pageSource = P_WebView /\ calls[j].pageSource = P_webview
    /\ calls[i].path = "webview" /\ calls[j].path = "webview"
    /\ calls[i].ret = S_WebViewPrefix \o <<112>>
    /\ calls[j].ret = S_WebViewPrefix \o <<104, 47>>
    /\ calls[j].pc = "done" /\ calls[i].pc = "done"

\* calls j and i of cs are accepted checks with no accepted check between
ConsecutiveAccepted(cs, j, i) ==
  /\ j < i
  /\ AcceptedCheck(cs[j]) /\ AcceptedCheck(cs[i])
  /\ \A k \in (j + 1)..(i - 1) : ~AcceptedCheck(cs[k])

\* check i completes in this step, and it and the accepted check before it,
\* j, both ended in the fallback with the same name
SameFallbackTwice(j, i) ==
  /\ ConsecutiveAccepted(calls, j, i)
  /\ calls[j].pc = "done" /\ calls[j].path = "fallback"
  /\ CheckCompletes(i) /\ calls[i].path = "fallback"
  /\ calls[i].ret = calls[j].ret

\* C27 as stated: two consecutive accepted checks that both end in the
\* fallback with the same "Screen at H:M:S" name add only one journal entry:
\* the second appends nothing.
C27_AsStated ==
  [][\A i, j \in 1..Len(calls) :
       SameFallbackTwice(j, i) => navigations' = navigations]_vars

\* a recordUserAction call with a key of the map lies between calls j and i
ActionBetween(j, i) ==
  \E k \in (j + 1)..(i - 1) :
    calls[k].op = "recordUserAction" /\ calls[k].arg \in DOMAIN actionScreenMap

\* C27 amended: the fallback name is made of the hour, minute and second of
\* the wall clock only, so two fallbacks in the same second have the same
\* name; of two consecutive accepted checks that both end in the fallback
\* with the same name, the second appends nothing, provided no
\* recordUserAction with a key of the map was called between them.  After
\* such a call currentScreen is the mapped screen and the second check
\* appends its name again.
C27_SameSecondSuppressed ==
  [][\A i \in 1..Len(calls) :
       /\ (IsCheck(calls[i]) /\ calls[i].pc \in {"source", "url"}
             /\ calls'[i].path = "fallback")
            => calls'[i].ret = ScreenAt(clock)
       /\ \A j \in 1..Len(calls) :
            SameFallbackTwice(j, i) =>
              IF ActionBetween(j, i)
              THEN /\ Len(navigations') = Len(navigations) + 1
                   /\ navigations'[Len(navigations')].current_screen = calls[i].ret
              ELSE navigations' = navigations]_vars

\* two checks 300 ms apart fell back in the same second; the journal holds
\* the name once
C27_Witness ==
  /\ Len(calls) = 2
  /\ calls[1].path = "fallback" /\ calls[2].path = "fallback"
  /\ calls[1].pc = "done" /\ calls[2].pc = "done"
  /\ calls[1].ret = calls[2].ret
  /\ clock - StartTime >= 300
  /\ Len(navigations) = 2
  /\ navigations[2].current_screen = calls[2].ret

\* C28: the journal entries form a chain: the previous_screen of every entry
\* after the first equals the current_screen of the entry before it.
C28_Chain ==
  \A k \in 2..Len(navigations) :
    navigations[k].previous_screen = navigations[k - 1].current_screen

\* C29: once the journal holds two entries, currentScreen equals the
\* current_screen of its last entry in every later state: after construction
\* currentScreen changes only in a step that appends an entry, and it
\* becomes that entry's current_screen.
C29_CurrentScreenFollowsJournal ==
  [][/\ Len(navigations') >= 2 =>
          currentScreen' = navigations'[Len(navigations')].current_screen
     /\ currentScreen' # currentScreen =>
          /\ Len(navigations') = Len(navigations) + 1
          /\ currentScreen' = navigations'[Len(navigations')].current_screen]_vars

\* with three entries in the journal a check returned the current screen and
\* appended nothing
C29_Witness ==
  /\ Len(calls) = 3 /\ Len(navigations) = 3
  /\ IsCheck(calls[3]) /\ calls[3].pc = "done" /\ Returned(calls[3])
  /\ calls[3].ret = currentScreen
  /\ calls[3].ret = navigations[3].current_screen
  /\ calls[1].op = "recordUserAction" /\ calls[2].op = "recordUserAction"

\* call k stored the fingerprint of its page source
StoredFingerprint(k) == calls[k].srcKind = "text" /\ calls[k].path # "shortcut"

\* C30: a check that returns through the unchanged-fingerprint shortcut
\* reports the screen that was inferred from the same page source by the
\* check that stored the fingerprint, whatever recordUserAction or a hint
\* did to currentScreen in between.
C30_ShortcutReportsInferredScreen ==
  \A i \in 1..Len(calls) :
    calls[i].path = "shortcut" =>
      \E j \in 1..(i - 1) :
        /\ StoredFingerprint(j)
        /\ \A k \in (j + 1)..(i - 1) : ~StoredFingerprint(k)
        /\ calls[j].pageSource = calls[i].pageSource
        /\ calls[i].ret = calls[j].ret

\* the settle timer of the afterClick call i fires and its check starts
SettleEnds(i) ==
  /\ i <= Len(calls)
  /\ calls[i].op = "afterClick"
  /\ calls[i].pc = "settle"
  /\ calls'[i].pc # "settle"

\* C31: with calls awaited one at a time, the check that afterClick runs
\* when its settle delay has passed is never throttled: at least
\* minCheckInterval has passed since the last accepted check, the check is
\* stamped and goes on to infer the screen (from the hint or a snapshot).
C31_AfterClickNeverThrottled ==
  [][\A i \in 1..Len(calls) :
       SettleEnds(i) =>
         /\ clock - lastCheckTime >= minCheckInterval
         /\ calls'[i].path # "throttled"
         /\ calls'[i].pc \in {"source", "resume"}
         /\ lastCheckTime' = clock]_vars

\* C31 happens: the first call is a check accepted at the start time, the
\* afterClick called at once after it has run its own check exactly
\* settleDelay later, and that check was accepted too.
C31_Witness ==
  /\ Len(calls) >= 2
  /\ calls[1].op = "trackNavigation"
  /\ AcceptedCheck(calls[1])
  /\ calls[2].op = "afterClick"
  /\ AcceptedCheck(calls[2])
  /\ lastCheckTime = StartTime + settleDelay

\* C32: of two accepted trackNavigation calls that both append an entry, the
\* one that started first (the earlier one in the call log) has its entry
\* earlier in the journal, also when the second started while the first was
\* still awaiting its snapshot.
C32_JournalInStartOrder ==
  \A i \in 1..Len(calls), j \in 1..Len(calls) :
    (/\ i < j
     /\ calls[i].op = "trackNavigation" /\ calls[i].appended > 0
     /\ calls[j].op = "trackNavigation" /\ calls[j].appended > 0)
      => calls[i].appended < calls[j].appended

\* the calls that set a pending hint: beforeClick with an id that is a key
HintsSet(cs) == {k \in 1..Len(cs) : cs[k].op = "beforeClick" /\ mapHas(cs[k].arg)}

\* the checks that resolved from a pending hint
HintsUsed(cs) == {i \in 1..Len(cs) : IsCheck(cs[i]) /\ cs[i].path = "hint"}

\* C33: under any interleaving of overlapping trackNavigation and afterClick
\* calls, a pending hint is consumed by at most one check: after every step
\* no more checks have resolved from a hint than hints were set, at most
\* one check resolves from a hint in one step, and that step finds the hint
\* pending and leaves it cleared.
C33_HintConsumedOnce ==
  [][/\ Cardinality(HintsUsed(calls')) <= Cardinality(HintsSet(calls'))
     /\ HintsUsed(calls') # HintsUsed(calls) =>
          /\ Cardinality(HintsUsed(calls')) = Cardinality(HintsUsed(calls)) + 1
          /\ hintUsable(lastAction)
          /\ lastAction' = ""]_vars

\* C33 happens: one hint was set, then two checks ran that overlap; one of
\* them resolved from the hint and cleared it, the other, still suspended at
\* its snapshot, did not.
C33_Witness ==
  \E k \in HintsSet(calls), i \in 1..Len(calls), j \in 1..Len(calls) :
    /\ HintsSet(calls) = {k}
    /\ k < i /\ k < j
    /\ calls[i].path = "hint"
    /\ IsCheck(calls[j]) /\ calls[j].pc = "source"
    /\ lastAction = ""
====
